---- MODULE Spec2Model ----
(***************************************************************************)
(* A model of pytest_bdd/parser.py: the line classifier, the single-pass   *)
(* parse_feature state machine, the document tree it builds (Feature,      *)
(* Background, ScenarioTemplate, Step, Examples), the template renderer    *)
(* and the validator.                                                      *)
(*                                                                         *)
(* Text is modelled as text: a line of the feature file is a TLA+ string   *)
(* and the classifier works on its characters (startswith, strip, the      *)
(* three regular expressions), exactly as the Python code does.            *)
(* Objects live in heaps (Steps, Templates, Backgrounds) and a reference   *)
(* is the index of the object in its heap; NoRef is Python's None.         *)
(***************************************************************************)
EXTENDS Integers, Sequences, FiniteSets, TLC

\* ---------------------------------------------------------------- bounds
\* Longest feature file read, in lines.
MaxLines == 4
\* Most calls of ScenarioTemplate.render made on a parsed Feature.
MaxRenders == 1
\* Most concurrent runs that render a scenario of a parsed Feature.
MaxRuns == 2
\* Most lines after the "Examples:" line and the column names line.
MaxRows == 3
\* Most lines after a step line in a file that holds a multi-line step.
MaxBlock == 5

\* ------------------------------------------------------- Python's None
\* None in a slot that otherwise holds a string (mode, prev_line, name).
None == "<None>"
\* None in a slot that otherwise holds an object reference.
NoRef == 0
\* An attribute that __init__ never assigned: reading it raises
\* AttributeError.
Unset == "<unset>"

\* ------------------------------------------------ types (pytest_bdd.types)
FEATURE == "feature"
SCENARIO_OUTLINE == "scenario outline"
EXAMPLES == "examples"
EXAMPLES_HEADERS == "example headers"
EXAMPLE_LINE == "example line"
SCENARIO == "scenario"
BACKGROUND == "background"
GIVEN == "given"
WHEN == "when"
\* THEN is a reserved word of TLA+.
THEN_ == "then"
TAG == "tag"
STEP_TYPES == <<GIVEN, WHEN, THEN_>>

\* parser.py:20-33, in list order: the first matching prefix wins.
STEP_PREFIXES ==
  << <<"Feature: ", FEATURE>>,
     <<"Scenario Outline: ", SCENARIO_OUTLINE>>,
     <<"Examples:", EXAMPLES>>,
     <<"Scenario: ", SCENARIO>>,
     <<"Background:", BACKGROUND>>,
     <<"Given ", GIVEN>>,
     <<"When ", WHEN>>,
     <<"Then ", THEN_>>,
     <<"@", TAG>>,
     <<"And ", None>>,
     <<"But ", None>> >>

\* ----------------------------------------------------- string primitives
\* s[i-1] of Python, as a one-character string (1-based here).
Char(s, i) == SubSeq(s, i, i)

\* The characters str.strip() and the regex class \s remove/match.
IsSpace(c) == c \in {" ", "\t", "\n"}

\* value in a tuple of strings (Python's `x in (a, b, c)`).
InTuple(x, t) == \E i \in 1..Len(t) : t[i] = x

startswith(s, p) == Len(s) >= Len(p) /\ SubSeq(s, 1, Len(p)) = p

RECURSIVE lstrip(_)
lstrip(s) == IF Len(s) > 0 /\ IsSpace(Char(s, 1)) THEN lstrip(Tail(s)) ELSE s

RECURSIVE rstrip(_)
rstrip(s) ==
  IF Len(s) > 0 /\ IsSpace(Char(s, Len(s)))
  THEN rstrip(SubSeq(s, 1, Len(s) - 1))
  ELSE s

strip(s) == rstrip(lstrip(s))

\* str.lstrip("@"): drop every leading "@".
RECURSIVE lstrip_at(_)
lstrip_at(s) == IF Len(s) > 0 /\ Char(s, 1) = "@" THEN lstrip_at(Tail(s)) ELSE s

\* `a in b` for two strings: a occurs in b as a substring.
IsSubstring(a, b) ==
  \E i \in 1..(Len(b) + 1) : i + Len(a) - 1 <= Len(b) /\ SubSeq(b, i, i + Len(a) - 1) = a

\* sep.join(parts)
RECURSIVE join(_, _)
join(sep, parts) ==
  IF Len(parts) = 0 THEN ""
  ELSE IF Len(parts) = 1 THEN parts[1]
  ELSE parts[1] \o sep \o join(sep, Tail(parts))

\* str.split(sep) for a non-empty separator: the pieces between the
\* occurrences of sep, scanning left to right; cur is the piece being built.
RECURSIVE split_from(_, _, _, _)
split_from(s, sep, i, cur) ==
  IF i > Len(s) THEN <<cur>>
  ELSE IF i + Len(sep) - 1 <= Len(s) /\ SubSeq(s, i, i + Len(sep) - 1) = sep
       THEN <<cur>> \o split_from(s, sep, i + Len(sep), "")
       ELSE split_from(s, sep, i + 1, cur \o Char(s, i))

split(s, sep) == split_from(s, sep, 1, "")

\* str.replace(old, new)
RECURSIVE replace_from(_, _, _, _)
replace_from(s, old, new, i) ==
  IF i > Len(s) THEN ""
  ELSE IF i + Len(old) - 1 <= Len(s) /\ SubSeq(s, i, i + Len(old) - 1) = old
       THEN new \o replace_from(s, old, new, i + Len(old))
       ELSE Char(s, i) \o replace_from(s, old, new, i + 1)

replace(s, old, new) == replace_from(s, old, new, 1)

\* -------------------------------------------------------------- classifier
\* SPLIT_LINE_RE = (?<!\\)\| : a "|" not preceded by a backslash.
RECURSIVE SPLIT_LINE_RE_split(_, _, _)
SPLIT_LINE_RE_split(line, i, cur) ==
  IF i > Len(line) THEN <<cur>>
  ELSE IF Char(line, i) = "|" /\ (i = 1 \/ Char(line, i - 1) # "\\")
       THEN <<cur>> \o SPLIT_LINE_RE_split(line, i + 1, "")
       ELSE SPLIT_LINE_RE_split(line, i + 1, cur \o Char(line, i))

\* cell.replace("\\|", "|").strip() for each cell.
split_line_cells(cells) ==
  [k \in 1..Len(cells) |-> strip(replace(cells[k], "\\|", "|"))]

\* segs[1:-1]
split_line_inner(segs) == SubSeq(segs, 2, Len(segs) - 1)

\* split_line: the segments between the boundary pipes, unescaped, trimmed.
split_line(line) ==
  split_line_cells(split_line_inner(SPLIT_LINE_RE_split(line, 1, "")))

\* Index of the first STEP_PREFIXES entry the line starts with, 0 if none.
RECURSIVE FirstPrefix(_, _)
FirstPrefix(line, i) ==
  IF i > Len(STEP_PREFIXES) THEN 0
  ELSE IF startswith(line, STEP_PREFIXES[i][1]) THEN i
  ELSE FirstPrefix(line, i + 1)

\* parse_line when the line starts with prefix.
parse_line_with(line, prefix) ==
  <<strip(prefix), strip(SubSeq(line, Len(prefix) + 1, Len(line)))>>

\* parse_line when i is the index of the matching prefix (0: none).
parse_line_at(line, i) ==
  IF i = 0 THEN <<"", line>> ELSE parse_line_with(line, STEP_PREFIXES[i][1])

\* parse_line: <<prefix.strip(), rest.strip()>>, or <<"", line>>.
parse_line(line) == parse_line_at(line, FirstPrefix(line, 1))

\* COMMENT_RE = (^|(?<=\s))# : first "#" at the start or after whitespace;
\* 0 when the search finds nothing.
RECURSIVE COMMENT_RE_search(_, _)
COMMENT_RE_search(line, i) ==
  IF i > Len(line) THEN 0
  ELSE IF Char(line, i) = "#" /\ (i = 1 \/ IsSpace(Char(line, i - 1))) THEN i
  ELSE COMMENT_RE_search(line, i + 1)

\* strip_comments when res is where the comment starts (0: no comment).
strip_comments_at(line, res) ==
  strip(IF res # 0 THEN SubSeq(line, 1, res - 1) ELSE line)

strip_comments(line) == strip_comments_at(line, COMMENT_RE_search(line, 1))

\* get_step_type when i is the index of the matching prefix (0: none).
get_step_type_at(i) == IF i = 0 THEN None ELSE STEP_PREFIXES[i][2]

get_step_type(line) == get_step_type_at(FirstPrefix(line, 1))

\* {tag.lstrip("@") for tag in pieces if len(tag) > 1}
get_tags_of(pieces) ==
  {lstrip_at(pieces[k]) : k \in {j \in 1..Len(pieces) : Len(pieces[j]) > 1}}

\* get_tags: the set of tags on a tag line, {} for any other line.
get_tags(line) ==
  IF line = None \/ line = "" \/ ~startswith(strip(line), "@") THEN {}
  ELSE get_tags_of(split(strip(line), " @"))

\* ------------------------------------------------------------ data model
\* A number slot holding None (Examples.line_number before "Examples:").
NoLine == 0
\* A number attribute that __init__ never assigned.
UnsetInt == -1

\* Step.__init__ (parser.py:314-331) assigns type, indent, keyword,
\* docstring, datatable, scenario, background and lines. It assigns neither
\* the name nor the line number it is given: _name and line_number stay
\* unset on the instance. failed keeps its class default.
Step__init__(type, name, line_number, indent, keyword) ==
  [type |-> type, indent |-> indent, keyword |-> keyword,
   docstring |-> None, datatable |-> None,
   scenario |-> NoRef, background |-> NoRef, lines |-> <<>>,
   _name |-> Unset, line_number |-> UnsetInt, failed |-> FALSE]

\* Examples() with the dataclass defaults.
Examples__init__ ==
  [example_params |-> <<>>, examples |-> <<>>, line_number |-> NoLine, name |-> None]

\* ScenarioTemplate(feature, name, line_number, tags, templated); the
\* Feature is the only one of a parse, so the back-reference is a flag.
ScenarioTemplate__init__(name, line_number, tags, templated) ==
  [feature |-> TRUE, name |-> name, line_number |-> line_number,
   templated |-> templated, tags |-> tags,
   examples |-> Examples__init__, _steps |-> <<>>]

Background__init__(line_number) ==
  [feature |-> TRUE, line_number |-> line_number, steps |-> <<>>]

\* OrderedDict: a sequence of <<key, value>> in insertion order.
OrderedDict_has(d, k) == \E i \in 1..Len(d) : d[i][1] = k

\* A d[k] = v that deletes an existing key and inserts it again at the end.
OrderedDict_setitem_move_to_end(d, k, v) ==
  Append(SelectSeq(d, LAMBDA e : e[1] # k), <<k, v>>)

\* d[k] = v: a new key goes to the end, an existing key keeps its place.
OrderedDict_setitem(d, k, v) ==
  IF OrderedDict_has(d, k)
  THEN [i \in 1..Len(d) |-> IF d[i][1] = k THEN <<k, v>> ELSE d[i]]
  ELSE Append(d, <<k, v>>)

\* ---------------------------------------------------------------- Step.name
endswith(s, p) == Len(s) >= Len(p) /\ SubSeq(s, Len(s) - Len(p) + 1, Len(s)) = p

\* The leading run of blanks and tabs of a line ([ \t]*).
RECURSIVE leading_whitespace(_)
leading_whitespace(l) ==
  IF Len(l) > 0 /\ Char(l, 1) \in {" ", "\t"}
  THEN Char(l, 1) \o leading_whitespace(Tail(l))
  ELSE ""

\* The longest common prefix of two strings.
RECURSIVE common_prefix(_, _)
common_prefix(a, b) ==
  IF Len(a) > 0 /\ Len(b) > 0 /\ Char(a, 1) = Char(b, 1)
  THEN Char(a, 1) \o common_prefix(Tail(a), Tail(b))
  ELSE ""

\* textwrap.dedent's margin after a line with the given indent.
dedent_margin_step(margin, indent) ==
  IF margin = None THEN indent
  ELSE IF startswith(indent, margin) THEN margin
  ELSE IF startswith(margin, indent) THEN indent
  ELSE common_prefix(margin, indent)

\* textwrap.dedent's margin over the lines from index i on; None while no
\* line with text has been seen.
RECURSIVE dedent_margin(_, _, _)
dedent_margin(ls, i, margin) ==
  IF i > Len(ls) THEN margin
  ELSE IF ls[i] = "" THEN dedent_margin(ls, i + 1, margin)
  ELSE dedent_margin(ls, i + 1, dedent_margin_step(margin, leading_whitespace(ls[i])))

\* _whitespace_only_re.sub("", text): a line of blanks and tabs only
\* becomes empty.
dedent_blank(raw) ==
  [k \in 1..Len(raw) |->
     IF raw[k] # "" /\ leading_whitespace(raw[k]) = raw[k] THEN "" ELSE raw[k]]

\* re.sub(r"(?m)^" + margin, "", text) if margin.
dedent_remove(ls, margin) ==
  IF margin = None \/ margin = "" THEN join("\n", ls)
  ELSE join("\n", [k \in 1..Len(ls) |->
                     IF startswith(ls[k], margin)
                     THEN SubSeq(ls[k], Len(margin) + 1, Len(ls[k]))
                     ELSE ls[k]])

dedent_lines(ls) == dedent_remove(ls, dedent_margin(ls, 1, None))

\* textwrap.dedent(text): lines of blanks and tabs only become empty, then
\* the common leading whitespace is removed from every line that has it.
dedent(text) == dedent_lines(dedent_blank(split(text, "\n")))

\* re.sub(r'^"""\n(?P<content>.*)\n"""$', r"\g<content>", text, DOTALL):
\* $ matches at the end and before a final newline.
triple_quote == "\"\"\""

remove_multiline_quotes(text) ==
  IF ~startswith(text, triple_quote \o "\n") THEN text
  ELSE IF endswith(text, "\n" \o triple_quote) /\ Len(text) >= 8
       THEN SubSeq(text, 5, Len(text) - 4)
  ELSE IF endswith(text, "\n" \o triple_quote \o "\n") /\ Len(text) >= 9
       THEN SubSeq(text, 5, Len(text) - 5) \o "\n"
  ELSE text

\* The result of a call that may raise: exc is None and value the result,
\* or exc names the exception.
Ok(v) == [exc |-> None, value |-> v]
Raise(e) == [exc |-> e, value |-> None]

\* Step.name (property): reads self._name, which raises AttributeError on
\* an instance whose _name was never assigned.
Step_name(st) ==
  IF st._name = Unset THEN Raise("AttributeError")
  ELSE Ok(strip(join("\n",
         <<st._name,
           remove_multiline_quotes(
             IF Len(st.lines) > 0 THEN dedent(join("\n", st.lines)) ELSE "")>>)))

\* STEP_PARAM_RE = <(.+?)> : the index of the ">" that closes a match whose
\* "<" is at index i, 0 if there is no match at i ("." matches no newline).
RECURSIVE STEP_PARAM_RE_close(_, _, _)
STEP_PARAM_RE_close(s, i, k) ==
  IF k > Len(s) \/ Char(s, k) = "\n" THEN 0
  ELSE IF k >= i + 2 /\ Char(s, k) = ">" THEN k
  ELSE STEP_PARAM_RE_close(s, i, k + 1)

\* The index of the ">" closing a match of STEP_PARAM_RE at index i of s,
\* 0 if no match starts at i.
STEP_PARAM_RE_match(s, i) ==
  IF Char(s, i) = "<" THEN STEP_PARAM_RE_close(s, i, i + 1) ELSE 0

\* The text before the rest of a substitution, unless the rest raised.
sub_prepend(text, rest) ==
  IF rest.exc # None THEN rest ELSE Ok(text \o rest.value)

\* STEP_PARAM_RE.sub(replacer, s) from index i on, with
\* replacer(m) = str(context[m.group(1)]); a missing key raises KeyError.
\* sub_at is the step at index i, given the end j of the match at i.
RECURSIVE STEP_PARAM_RE_sub(_, _, _), STEP_PARAM_RE_sub_at(_, _, _, _)
STEP_PARAM_RE_sub(s, context, i) ==
  IF i > Len(s) THEN Ok("")
  ELSE STEP_PARAM_RE_sub_at(s, context, i, STEP_PARAM_RE_match(s, i))

STEP_PARAM_RE_sub_at(s, context, i, j) ==
  IF j = 0 THEN sub_prepend(Char(s, i), STEP_PARAM_RE_sub(s, context, i + 1))
  ELSE IF SubSeq(s, i + 1, j - 1) \notin DOMAIN context THEN Raise("KeyError")
  ELSE sub_prepend(context[SubSeq(s, i + 1, j - 1)],
                   STEP_PARAM_RE_sub(s, context, j + 1))

\* Step.params: the set of STEP_PARAM_RE.findall(s), from index i on;
\* findall_at is the step at index i, given the end j of the match at i.
RECURSIVE STEP_PARAM_RE_findall(_, _), STEP_PARAM_RE_findall_at(_, _, _)
STEP_PARAM_RE_findall(s, i) ==
  IF i > Len(s) THEN {}
  ELSE STEP_PARAM_RE_findall_at(s, i, STEP_PARAM_RE_match(s, i))

STEP_PARAM_RE_findall_at(s, i, j) ==
  IF j = 0 THEN STEP_PARAM_RE_findall(s, i + 1)
  ELSE {SubSeq(s, i + 1, j - 1)} \cup STEP_PARAM_RE_findall(s, j + 1)

\* STEP_PARAM_RE.sub(replacer, self.name), given the result of self.name.
Step_render_name(name, context) ==
  IF name.exc # None THEN name ELSE STEP_PARAM_RE_sub(name.value, context, 1)

\* Step.render(context)
Step_render(st, context) == Step_render_name(Step_name(st), context)

\* The Step(...) call of ScenarioTemplate.render for one template step,
\* given the result of step.render(context): the keyword arguments are
\* evaluated in order, so step.render comes first and the read of
\* step.line_number after it. The new Step is built by Step.__init__ like
\* any other.
render_step_named(st, name) ==
  IF name.exc # None THEN name
  ELSE IF st.line_number = UnsetInt THEN Raise("AttributeError")
  ELSE Ok(Step__init__(st.type, name.value, st.line_number, st.indent, st.keyword))

render_step(st, context) == render_step_named(st, Step_render(st, context))

\* The new reference in front of the references of the rest.
render_cons(ref, rest) == [rest EXCEPT !.steps = <<ref>> \o @]

\* The list comprehension of ScenarioTemplate.render over refs[i..]: the
\* new Steps are allocated on the heap; the result is the heap and the
\* references of the new Steps, or the exception of the first failing step.
\* render_steps_at is the step at index i, given the result r of Step(...).
RECURSIVE render_steps(_, _, _, _), render_steps_at(_, _, _, _, _)
render_steps(heap, refs, context, i) ==
  IF i > Len(refs) THEN [exc |-> None, heap |-> heap, steps |-> <<>>]
  ELSE render_steps_at(heap, refs, context, i, render_step(heap[refs[i]], context))

render_steps_at(heap, refs, context, i, r) ==
  IF r.exc # None THEN [exc |-> r.exc, heap |-> heap, steps |-> <<>>]
  ELSE render_cons(Len(heap) + 1,
                   render_steps(Append(heap, r.value), refs, context, i + 1))

\* What render returns when it raises.
NoScenario == [feature |-> FALSE, name |-> None, line_number |-> NoLine,
               steps |-> <<>>, tags |-> {}]

\* ------------------------------------------- ScenarioTemplate / validate
\* feature.background.steps if feature.background else []
background_steps(backgrounds, f) ==
  IF f.background # NoRef THEN backgrounds[f.background].steps ELSE <<>>

\* ScenarioTemplate.steps (property)
ScenarioTemplate_steps(templates, backgrounds, f, self) ==
  background_steps(backgrounds, f) \o templates[self]._steps

\* A scenario_steps that renders new Steps whether or not the template is
\* templated.
scenario_steps_always_rendered(heap, t, context) ==
  render_steps(heap, t._steps, context, 1)

\* scenario_steps of ScenarioTemplate.render: the template's own Steps, or
\* new Steps rendered from them when the template is templated.
scenario_steps(heap, t, context) ==
  IF ~t.templated
  THEN [exc |-> None, heap |-> heap, steps |-> t._steps]
  ELSE render_steps(heap, t._steps, context, 1)

\* The return of ScenarioTemplate.render, given scenario_steps r.
render_return(heap, backgrounds, f, t, r) ==
  IF r.exc # None
  THEN [exc |-> r.exc, heap |-> heap, scenario |-> NoScenario]
  ELSE [exc |-> None, heap |-> r.heap,
        scenario |-> [feature |-> t.feature, name |-> t.name,
                      line_number |-> t.line_number,
                      steps |-> background_steps(backgrounds, f) \o r.steps,
                      tags |-> t.tags]]

\* ScenarioTemplate.render(context): the heap after the call and the
\* Scenario returned, or the exception raised.
ScenarioTemplate_render(heap, templates, backgrounds, f, self, context) ==
  render_return(heap, backgrounds, f, templates[self],
                scenario_steps(heap, templates[self], context))

\* The exception of a step-related ValidationError, given the result of
\* self.name.
str_then_ValidationError(name) ==
  IF name.exc # None THEN name.exc ELSE "ValidationError"

\* A ValidationError whose message formats the step: Step.__str__ reads
\* self.name, so the AttributeError of an unset _name comes first.
raise_ValidationError_about(st) == str_then_ValidationError(Step_name(st))

\* a != b for two ScenarioTemplate references: the dataclass __eq__ holds
\* for the same object and for two objects with equal fields.
ScenarioTemplate_ne(templates, a, b) ==
  ~(a = b \/ (a # NoRef /\ b # NoRef /\ templates[a] = templates[b]))

\* a != b for two Background references.
Background_ne(backgrounds, a, b) ==
  ~(a = b \/ (a # NoRef /\ b # NoRef /\ backgrounds[a] = backgrounds[b]))

\* ScenarioTemplate.validate over _steps[i..]: "ok" or the exception.
\* The checks of ScenarioTemplate.validate on one step: "ok" or the
\* exception.
ScenarioTemplate_validate_step(templates, self, st) ==
  IF st.background # NoRef THEN raise_ValidationError_about(st)
  ELSE IF ScenarioTemplate_ne(templates, st.scenario, self)
       THEN raise_ValidationError_about(st)
  ELSE "ok"

\* Go on with the rest unless v is an exception.
ok_then(v, rest) == IF v # "ok" THEN v ELSE rest

\* ScenarioTemplate.validate over _steps[i..]: "ok" or the exception.
RECURSIVE ScenarioTemplate_validate(_, _, _, _)
ScenarioTemplate_validate(heap, templates, self, i) ==
  IF ~templates[self].feature THEN "ValidationError"
  ELSE IF i > Len(templates[self]._steps) THEN "ok"
  ELSE ok_then(
         ScenarioTemplate_validate_step(templates, self,
                                        heap[templates[self]._steps[i]]),
         ScenarioTemplate_validate(heap, templates, self, i + 1))

\* The checks of Background.validate on one step.
Background_validate_step(backgrounds, self, st) ==
  IF Background_ne(backgrounds, st.background, self)
  THEN raise_ValidationError_about(st)
  ELSE IF st.scenario # NoRef THEN raise_ValidationError_about(st)
  ELSE "ok"

\* Background.validate over steps[i..].
RECURSIVE Background_validate(_, _, _, _)
Background_validate(heap, backgrounds, self, i) ==
  IF ~backgrounds[self].feature THEN "ValidationError"
  ELSE IF i > Len(backgrounds[self].steps) THEN "ok"
  ELSE ok_then(
         Background_validate_step(backgrounds, self, heap[backgrounds[self].steps[i]]),
         Background_validate(heap, backgrounds, self, i + 1))

\* Feature.validate over scenarios.items()[i..], then the background.
RECURSIVE Feature_validate_from(_, _, _, _, _)
Feature_validate_from(heap, templates, backgrounds, f, i) ==
  IF i > Len(f.scenarios)
  THEN IF f.background # NoRef
       THEN Background_validate(heap, backgrounds, f.background, 1)
       ELSE "ok"
  ELSE IF f.scenarios[i][1] # templates[f.scenarios[i][2]].name
       THEN "ValidationError"
       ELSE ok_then(
              ScenarioTemplate_validate(heap, templates, f.scenarios[i][2], 1),
              Feature_validate_from(heap, templates, backgrounds, f, i + 1))

Feature_validate(heap, templates, backgrounds, f) ==
  Feature_validate_from(heap, templates, backgrounds, f, 1)

\* ------------------------------------------------------------------ input
\* parse_feature(basedir, filename)
basedir == "/d"
filename == "f.feature"
abs_filename == basedir \o "/" \o filename
rel_filename == "d/" \o filename

\* The lines a feature file is made of.
Lines ==
  { "Feature: A", "Feature: B", "@t",
    "Scenario: s", "Scenario Outline: r", "Background:",
    "Given <n>", "When x", "Then y # c", "And z",
    "Examples:", "| n |", "", "  q" }

\* ------------------------------------------------------------------ state
VARIABLES
  content,         \* the lines of the file read so far (content.splitlines())
  outcome,         \* "running", "returned", "FeatureError", "AttributeError"
  error,           \* the arguments of the exception raised, or None
  feature,         \* the Feature under construction / returned
  scenario,        \* reference into Templates, or NoRef
  mode,
  prev_mode,
  description,
  step,            \* reference into Steps (the active step), or NoRef
  multiline_step,
  prev_line,
  Steps,           \* heap of Step objects
  Templates,       \* heap of ScenarioTemplate objects
  Backgrounds,     \* heap of Background objects
  rendered,        \* the results of the render calls made so far, in order;
                   \* marked (history): the Steps this run set failed on
  validated,       \* the result of the last Feature.validate(), or None
  origin,          \* history: for each Step of the heap, the number of the
                   \* file line it was built from (0: built by render)
  gen              \* the generator of the last Examples.as_contexts() call,
                   \* or NoGen

vars == <<content, outcome, error, feature, scenario, mode, prev_mode,
          description, step, multiline_step, prev_line, Steps, Templates,
          Backgrounds, rendered, validated, origin, gen>>

\* The parser's state as one value, for the sequential code of the loop body.
Locals ==
  [outcome |-> outcome, error |-> error, feature |-> feature,
   scenario |-> scenario, mode |-> mode, prev_mode |-> prev_mode,
   description |-> description, step |-> step,
   multiline_step |-> multiline_step, prev_line |-> prev_line,
   Steps |-> Steps, Templates |-> Templates, Backgrounds |-> Backgrounds]

\* A raise that reports the 0-based index of the line.
raise_FeatureError_zero_based(s, message, line_number, line) ==
  [s EXCEPT !.outcome = "FeatureError",
            !.error = <<message, line_number - 1, line, filename>>]

\* raise exceptions.FeatureError(message, line_number, line, filename)
raise_FeatureError(s, message, line_number, line) ==
  [s EXCEPT !.outcome = "FeatureError",
            !.error = <<message, line_number, line, filename>>]

\* Dereferencing None (scenario.examples, scenario.add_step).
raise_AttributeError(s, what) ==
  [s EXCEPT !.outcome = "AttributeError", !.error = <<what>>]

\* An allowed_prev_mode that also lets a step follow a Then.
allowed_prev_mode_with_then == <<BACKGROUND, GIVEN, WHEN, THEN_>>

allowed_prev_mode == <<BACKGROUND, GIVEN, WHEN>>

\* An add_step that appends the Step without setting step.scenario.
ScenarioTemplate_add_step_unlinked(s, new_step) ==
  LET ref == Len(s.Steps) + 1 IN
  [s EXCEPT !.Steps = Append(@, new_step),
            !.Templates[s.scenario]._steps = Append(@, ref),
            !.step = ref]

\* ScenarioTemplate.add_step after Step(...): the new Step is allocated on
\* the heap, linked to the scenario and appended to its _steps.
ScenarioTemplate_add_step(s, new_step) ==
  LET ref == Len(s.Steps) + 1 IN
  [s EXCEPT !.Steps = Append(@, [new_step EXCEPT !.scenario = s.scenario]),
            !.Templates[s.scenario]._steps = Append(@, ref),
            !.step = ref]

\* Background.add_step after Step(...).
Background_add_step(s, new_step) ==
  LET ref == Len(s.Steps) + 1 IN
  [s EXCEPT !.Steps = Append(@, [new_step EXCEPT !.background = s.feature.background]),
            !.Backgrounds[s.feature.background].steps = Append(@, ref),
            !.step = ref]

\* a or b, for a string or None.
python_or(a, b) == IF a # None THEN a ELSE b

\* line_indent of a line (parser.py:120-121).
IndentOf(line) == Len(line) - Len(lstrip(line))

\* parser.py:163-189: the emission by mode, with <<keyword, parsed_line>> =
\* parse_line(clean_line).
emit_by_mode(s, line_number, line_indent, stripped_line, keyword, parsed_line) ==
  IF s.mode \in {SCENARIO, SCENARIO_OUTLINE}
  THEN [s EXCEPT
         !.Templates = Append(@, ScenarioTemplate__init__(
                          parsed_line, line_number, get_tags(s.prev_line),
                          s.mode = SCENARIO_OUTLINE)),
         !.scenario = Len(s.Templates) + 1,
         !.feature.scenarios = OrderedDict_setitem(@, parsed_line, Len(s.Templates) + 1)]
  ELSE IF s.mode = BACKGROUND
  THEN [s EXCEPT !.Backgrounds = Append(@, Background__init__(line_number)),
                 !.feature.background = Len(s.Backgrounds) + 1]
  ELSE IF s.mode = EXAMPLES
  THEN IF s.scenario = NoRef
       THEN raise_AttributeError([s EXCEPT !.mode = EXAMPLES_HEADERS], "examples")
       ELSE [s EXCEPT !.mode = EXAMPLES_HEADERS,
                      !.Templates[s.scenario].examples.line_number = line_number]
  ELSE IF s.mode = EXAMPLES_HEADERS
  THEN IF s.scenario = NoRef
       THEN raise_AttributeError(s, "examples")
       ELSE [s EXCEPT
              !.Templates[s.scenario].examples.example_params =
                 SelectSeq(split_line(parsed_line), LAMBDA l : l # ""),
              !.mode = EXAMPLE_LINE]
  ELSE IF s.mode = EXAMPLE_LINE
  THEN IF s.scenario = NoRef
       THEN raise_AttributeError(s, "examples")
       ELSE [s EXCEPT !.Templates[s.scenario].examples.examples =
                        Append(@, split_line(stripped_line))]
  ELSE IF s.mode # None /\ s.mode \notin {FEATURE, TAG}
  THEN IF s.feature.background # NoRef /\ s.scenario = NoRef
       THEN Background_add_step(s,
              Step__init__(s.mode, parsed_line, line_number, line_indent, keyword))
       ELSE IF s.scenario = NoRef
            THEN raise_AttributeError(s, "add_step")
            ELSE ScenarioTemplate_add_step(s,
                   Step__init__(s.mode, parsed_line, line_number, line_indent, keyword))
  ELSE s

\* A prev_line that is assigned on tag lines only.
set_prev_line_on_tag_lines_only(r, clean_line) ==
  IF r.outcome = "running" /\ startswith(strip(clean_line), "@")
  THEN [r EXCEPT !.prev_line = clean_line]
  ELSE r

\* parser.py:190: prev_line = clean_line, unless the emission raised.
set_prev_line(r, clean_line) ==
  IF r.outcome = "running" THEN [r EXCEPT !.prev_line = clean_line] ELSE r

\* parser.py:161-190, with parsed = parse_line(clean_line).
emit_parsed(s, line_number, line_indent, stripped_line, clean_line, parsed) ==
  set_prev_line(
    emit_by_mode(s, line_number, line_indent, stripped_line, parsed[1], parsed[2]),
    clean_line)

\* parser.py:158-190: prev_mode = mode, then the emission by mode, then
\* prev_line = clean_line.
emit(s, line_number, line_indent, stripped_line, clean_line) ==
  emit_parsed([s EXCEPT !.prev_mode = s.mode], line_number, line_indent,
              stripped_line, clean_line, parse_line(clean_line))

\* parser.py:136-190: the guard, the Feature header, then the emission; s
\* has the mode of this line.
loop_body_mode(s, line_number, line_indent, stripped_line, clean_line) ==
  IF s.scenario = NoRef
     /\ ~InTuple(s.prev_mode, allowed_prev_mode)
     /\ InTuple(s.mode, STEP_TYPES)
  THEN raise_FeatureError(s,
         "Step definition outside of a Scenario or a Background",
         line_number, clean_line)
  ELSE
    IF s.mode = FEATURE
    THEN IF s.prev_mode = None \/ s.prev_mode = TAG
         THEN emit([s EXCEPT !.feature.name = parse_line(clean_line)[2],
                             !.feature.line_number = line_number,
                             !.feature.tags = get_tags(s.prev_line)],
                   line_number, line_indent, stripped_line, clean_line)
         ELSE IF s.prev_mode = FEATURE
         THEN emit([s EXCEPT !.description = Append(@, clean_line)],
                   line_number, line_indent, stripped_line, clean_line)
         ELSE raise_FeatureError(s,
                "Multiple features are not allowed in a single feature file",
                line_number, clean_line)
    ELSE emit(s, line_number, line_indent, stripped_line, clean_line)

\* parser.py:130-190: the line is not a continuation line; s has step and
\* multiline_step reset.
loop_body_clean(s, line_number, line_indent, stripped_line, clean_line) ==
  IF clean_line = "" /\ (s.prev_mode = None \/ ~IsSubstring(s.prev_mode, FEATURE))
  THEN s
  ELSE loop_body_mode(
         [s EXCEPT !.mode = python_or(get_step_type(clean_line), s.mode)],
         line_number, line_indent, stripped_line, clean_line)

\* A loop body that adds the continuation line without its surrounding
\* whitespace.
loop_body_adds_stripped_line(s, line_number, line) ==
  IF s.step # NoRef
     /\ (s.Steps[s.step].indent < IndentOf(line)
         \/ (lstrip(line) = "" /\ s.multiline_step))
  THEN [s EXCEPT !.multiline_step = TRUE,
                 !.Steps[s.step].lines = Append(@, strip(line))]
  ELSE loop_body_clean([s EXCEPT !.step = NoRef, !.multiline_step = FALSE],
                       line_number, IndentOf(line), strip(line),
                       strip_comments(line))

\* parser.py:119-190: one iteration of the loop over the lines of the file.
loop_body(s, line_number, line) ==
  IF s.step # NoRef
     /\ (s.Steps[s.step].indent < IndentOf(line)
         \/ (lstrip(line) = "" /\ s.multiline_step))
  THEN \* multiline step, so just add line and continue
       [s EXCEPT !.multiline_step = TRUE,
                 !.Steps[s.step].lines = Append(@, line)]
  ELSE loop_body_clean([s EXCEPT !.step = NoRef, !.multiline_step = FALSE],
                       line_number, IndentOf(line), strip(line),
                       strip_comments(line))

\* No call of Examples.as_contexts() made yet.
NoGen == [template |-> NoRef, pos |-> 0, yielded |-> <<>>, status |-> "none"]

\* ---------------------------------------------------------------- actions
\* parser.py:98-114: the state before the first line is read.
Init ==
  /\ content = <<>>
  /\ outcome = "running"
  /\ error = None
  /\ feature = [scenarios |-> <<>>, filename |-> abs_filename,
                rel_filename |-> rel_filename, line_number |-> 1,
                name |-> None, tags |-> {}, background |-> NoRef,
                description |-> ""]
  /\ scenario = NoRef
  /\ mode = None
  /\ prev_mode = None
  /\ description = <<>>
  /\ step = NoRef
  /\ multiline_step = FALSE
  /\ prev_line = None
  /\ Steps = <<>>
  /\ Templates = <<>>
  /\ Backgrounds = <<>>
  /\ rendered = <<>>
  /\ validated = None
  /\ origin = <<>>
  /\ gen = NoGen

\* Assign every variable of the parser from the value r.
Store(r) ==
  /\ outcome' = r.outcome
  /\ error' = r.error
  /\ feature' = r.feature
  /\ scenario' = r.scenario
  /\ mode' = r.mode
  /\ prev_mode' = r.prev_mode
  /\ description' = r.description
  /\ step' = r.step
  /\ multiline_step' = r.multiline_step
  /\ prev_line' = r.prev_line
  /\ Steps' = r.Steps
  /\ Templates' = r.Templates
  /\ Backgrounds' = r.Backgrounds

\* The loop reads the next line of the file and runs the loop body on it.
ForLine ==
  /\ outcome = "running"
  /\ Len(content) < MaxLines
  /\ \E line \in Lines :
       /\ content' = Append(content, line)
       /\ \E r \in {loop_body(Locals, Len(content) + 1, line)} : Store(r)
  /\ origin' = IF Len(Steps') > Len(Steps)
               THEN Append(origin, Len(content) + 1)
               ELSE origin
  /\ UNCHANGED <<rendered, validated, gen>>

\* parser.py:192-193: the file is exhausted; the description is joined and
\* the Feature returned.
Return ==
  /\ outcome = "running"
  /\ \E r \in {[Locals EXCEPT !.outcome = "returned",
                                   !.feature.description =
                                      strip(join("\n", description))]} :
       Store(r)
  /\ UNCHANGED <<content, rendered, validated, origin, gen>>

\* The rows a scenario is rendered with.
Contexts == { [k \in {} |-> ""], [k \in {"n"} |-> "1"] }

\* The execution layer calls render on a scenario of the returned Feature.
Render ==
  /\ outcome = "returned"
  /\ Len(rendered) < MaxRenders
  /\ \E i \in 1..Len(feature.scenarios) : \E context \in Contexts :
       \E r \in {ScenarioTemplate_render(Steps, Templates, Backgrounds, feature,
                                         feature.scenarios[i][2], context)} :
          /\ Steps' = r.heap
          /\ origin' = origin \o [k \in 1..(Len(r.heap) - Len(Steps)) |-> 0]
          /\ rendered' = Append(rendered,
               [template |-> feature.scenarios[i][2], context |-> context,
                exc |-> r.exc, scenario |-> r.scenario, marked |-> {}])
  /\ UNCHANGED <<content, outcome, error, feature, scenario, mode, prev_mode,
                 description, step, multiline_step, prev_line, Templates,
                 Backgrounds, validated, gen>>

\* Feature.validate() on the returned Feature.
Validate ==
  /\ outcome = "returned"
  /\ validated' = Feature_validate(Steps, Templates, Backgrounds, feature)
  /\ UNCHANGED <<content, outcome, error, feature, scenario, mode, prev_mode,
                 description, step, multiline_step, prev_line, Steps, Templates,
                 Backgrounds, rendered, origin, gen>>

\* A run of the execution layer renders the scenario it executes.
RunRender ==
  /\ outcome = "returned"
  /\ Len(rendered) < MaxRuns
  /\ \E i \in 1..Len(feature.scenarios) : \E context \in Contexts :
       \E r \in {ScenarioTemplate_render(Steps, Templates, Backgrounds, feature,
                                         feature.scenarios[i][2], context)} :
          /\ Steps' = r.heap
          /\ origin' = origin \o [k \in 1..(Len(r.heap) - Len(Steps)) |-> 0]
          /\ rendered' = Append(rendered,
               [template |-> feature.scenarios[i][2], context |-> context,
                exc |-> r.exc, scenario |-> r.scenario, marked |-> {}])
  /\ UNCHANGED <<content, outcome, error, feature, scenario, mode, prev_mode,
                 description, step, multiline_step, prev_line, Templates,
                 Backgrounds, validated, gen>>

\* The Step references of a Scenario returned by render.
StepsOfRun(k) == {rendered[k].scenario.steps[j] :
                    j \in 1..Len(rendered[k].scenario.steps)}

\* The run that executes the Scenario of render call k sets the failure
\* marker (Step.failed, parser.py:309) of one of its steps.
MarkFailed ==
  /\ outcome = "returned"
  /\ \E k \in 1..Len(rendered) : \E ref \in StepsOfRun(k) :
       /\ rendered[k].exc = None
       /\ ~Steps[ref].failed
       /\ Steps' = [Steps EXCEPT ![ref].failed = TRUE]
       /\ rendered' = [rendered EXCEPT ![k].marked = @ \cup {ref}]
  /\ UNCHANGED <<content, outcome, error, feature, scenario, mode, prev_mode,
                 description, step, multiline_step, prev_line, Templates,
                 Backgrounds, validated, origin, gen>>

Next == ForLine \/ Return \/ Render \/ Validate

Spec == Init /\ [][Next]_vars

\* Concurrent runs over one parsed Feature: each renders a scenario and sets
\* failure markers on the steps of the Scenario it got.
NextRuns == ForLine \/ Return \/ RunRender \/ MarkFailed

SpecRuns == Init /\ [][NextRuns]_vars

\* ------------------------------------------------------ hand-made trees
\* The tree has one of the defects Feature.validate looks for: a map key
\* that is not the scenario's name, a step of a scenario's own list that
\* references a Background or does not reference that scenario, a step of
\* the Background's list that references a scenario or does not reference
\* that Background.
Defective ==
  \/ \E e \in 1..Len(feature.scenarios) :
        \/ feature.scenarios[e][1] # Templates[feature.scenarios[e][2]].name
        \/ \E j \in 1..Len(Templates[feature.scenarios[e][2]]._steps) :
             LET st == Steps[Templates[feature.scenarios[e][2]]._steps[j]] IN
             st.background # NoRef \/ st.scenario # feature.scenarios[e][2]
  \/ /\ feature.background # NoRef
     /\ \E j \in 1..Len(Backgrounds[feature.background].steps) :
          LET st == Steps[Backgrounds[feature.background].steps[j]] IN
          st.scenario # NoRef \/ st.background # feature.background

\* A caller assigns step.scenario (parser.py:310) of a Step of the returned
\* tree: None or one of the ScenarioTemplates.
SetStepScenario ==
  /\ outcome = "returned"
  /\ ~Defective
  /\ \E ref \in 1..Len(Steps) : \E v \in 0..Len(Templates) :
       /\ v # Steps[ref].scenario
       /\ Steps' = [Steps EXCEPT ![ref].scenario = v]
  /\ validated' = None
  /\ UNCHANGED <<content, outcome, error, feature, scenario, mode, prev_mode,
                 description, step, multiline_step, prev_line, Templates,
                 Backgrounds, rendered, origin, gen>>

\* A caller assigns step.background (parser.py:311) of a Step of the
\* returned tree: None or one of the Backgrounds.
SetStepBackground ==
  /\ outcome = "returned"
  /\ ~Defective
  /\ \E ref \in 1..Len(Steps) : \E v \in 0..Len(Backgrounds) :
       /\ v # Steps[ref].background
       /\ Steps' = [Steps EXCEPT ![ref].background = v]
  /\ validated' = None
  /\ UNCHANGED <<content, outcome, error, feature, scenario, mode, prev_mode,
                 description, step, multiline_step, prev_line, Templates,
                 Backgrounds, rendered, origin, gen>>

\* A caller moves a scenario of feature.scenarios (parser.py:200) to a key
\* that is not in the map.
RenameScenarioKey ==
  /\ outcome = "returned"
  /\ ~Defective
  /\ \E e \in 1..Len(feature.scenarios) : \E k \in {"s", "r", "x"} :
       /\ ~OrderedDict_has(feature.scenarios, k)
       /\ feature' = [feature EXCEPT !.scenarios[e][1] = k]
  /\ validated' = None
  /\ UNCHANGED <<content, outcome, error, scenario, mode, prev_mode,
                 description, step, multiline_step, prev_line, Steps, Templates,
                 Backgrounds, rendered, origin, gen>>

NextTrees ==
  ForLine \/ Return \/ Validate
    \/ SetStepScenario \/ SetStepBackground \/ RenameScenarioKey

SpecTrees == Init /\ [][NextTrees]_vars

\* ------------------------------------------------- multi-line step text
\* A feature file with one Scenario and a step followed by an indented
\* block: the lines that can stand at position n.
BlockRows == { "  \"\"\"", "    a", "  b", "  When y # c", "", "When x" }
BlockLines(n) ==
  IF n = 1 THEN {"Scenario: s"}
  ELSE IF n = 2 THEN {"Given <n>"}
  ELSE BlockRows

\* The loop reads the next line of a file that holds a multi-line step.
ForBlockLine ==
  /\ outcome = "running"
  /\ Len(content) < 2 + MaxBlock
  /\ \E line \in BlockLines(Len(content) + 1) :
       /\ content' = Append(content, line)
       /\ \E r \in {loop_body(Locals, Len(content) + 1, line)} : Store(r)
  /\ origin' = IF Len(Steps') > Len(Steps)
               THEN Append(origin, Len(content) + 1)
               ELSE origin
  /\ UNCHANGED <<rendered, validated, gen>>

NextBlock == ForBlockLine \/ Return

SpecBlock == Init /\ [][NextBlock]_vars

\* ------------------------------------------------ Examples.as_contexts
\* The last index i with header[i] = k.
last_index(header, k) ==
  CHOOSE i \in 1..Len(header) :
    header[i] = k /\ \A j \in (i + 1)..Len(header) : header[j] # k

\* dict(zip(header, row)) for two lists of the same length: a later column
\* of the same name replaces an earlier one.
dict_zip(header, row) ==
  [k \in {header[i] : i \in 1..Len(header)} |-> row[last_index(header, k)]]

\* A generator body that returns at a row of another length than the header.
Examples_as_contexts_next_stop_at_mismatch(ex, g) ==
  IF Len(ex.examples) = 0 \/ g.pos = Len(ex.examples)
  THEN [g EXCEPT !.status = "done"]
  ELSE IF Len(ex.example_params) # Len(ex.examples[g.pos + 1])
  THEN [g EXCEPT !.status = "done"]
  ELSE [g EXCEPT !.pos = @ + 1,
                 !.yielded = Append(@, dict_zip(ex.example_params,
                                                ex.examples[g.pos + 1]))]

\* The body of the generator from the row after g.pos on (parser.py:431-439),
\* up to its next yield, its return or the failure of its assert.
Examples_as_contexts_next(ex, g) ==
  IF Len(ex.examples) = 0 \/ g.pos = Len(ex.examples)
  THEN [g EXCEPT !.status = "done"]
  ELSE IF Len(ex.example_params) # Len(ex.examples[g.pos + 1])
  THEN [g EXCEPT !.status = "AssertionError"]
  ELSE [g EXCEPT !.pos = @ + 1,
                 !.yielded = Append(@, dict_zip(ex.example_params,
                                                ex.examples[g.pos + 1]))]

\* A feature file with one Scenario Outline and its Examples table: the
\* lines that can stand at position n.
TableRows == { "| n |", "| n | |", "| 1 | 2 |", "And z" }
TableLines(n) ==
  IF n = 1 THEN {"Scenario Outline: r"}
  ELSE IF n = 2 THEN {"Examples:"}
  ELSE TableRows

\* The loop reads the next line of a file that holds an Examples table.
ForTableLine ==
  /\ outcome = "running"
  /\ Len(content) < 3 + MaxRows
  /\ \E line \in TableLines(Len(content) + 1) :
       /\ content' = Append(content, line)
       /\ \E r \in {loop_body(Locals, Len(content) + 1, line)} : Store(r)
  /\ UNCHANGED <<rendered, validated, origin, gen>>

\* The execution layer calls scenario.examples.as_contexts(): a new
\* generator, none of its body run yet.
AsContexts ==
  /\ outcome = "returned"
  /\ \E i \in 1..Len(feature.scenarios) :
       gen' = [template |-> feature.scenarios[i][2], pos |-> 0,
               yielded |-> <<>>, status |-> "suspended"]
  /\ UNCHANGED <<content, outcome, error, feature, scenario, mode, prev_mode,
                 description, step, multiline_step, prev_line, Steps, Templates,
                 Backgrounds, rendered, validated, origin>>

\* next() on the generator.
GenNext ==
  /\ gen.status = "suspended"
  /\ gen' = Examples_as_contexts_next(Templates[gen.template].examples, gen)
  /\ UNCHANGED <<content, outcome, error, feature, scenario, mode, prev_mode,
                 description, step, multiline_step, prev_line, Steps, Templates,
                 Backgrounds, rendered, validated, origin>>

NextTable == ForTableLine \/ Return \/ AsContexts \/ GenNext

SpecTable == Init /\ [][NextTable]_vars

\* ------------------------------------------------------------- properties
\* In the current state the line would be taken as a continuation line of
\* the active step, so the classifier never sees it.
Captured(line) ==
  /\ step # NoRef
  /\ (Steps[step].indent < IndentOf(line) \/ (lstrip(line) = "" /\ multiline_step))

\* No Scenario, Scenario Outline or Background header among the lines read.
NoHeaderYet ==
  \A i \in 1..Len(content) :
    get_step_type(strip_comments(content[i])) \notin {SCENARIO, SCENARIO_OUTLINE, BACKGROUND}

\* C1: a line classified as Given, When or Then before any Scenario,
\* Scenario Outline or Background header has been processed makes
\* parse_feature raise FeatureError with the 1-based number of that line,
\* its comment-stripped text and the file name; no Feature is returned.
C1_StepBeforeAnyHeaderRaises ==
  [][ /\ content' # content =>
           LET line == content'[Len(content')]
               clean == strip_comments(line)
           IN (get_step_type(clean) \in {GIVEN, WHEN, THEN_} /\ NoHeaderYet)
              => /\ outcome' = "FeatureError"
                 /\ error' = <<"Step definition outside of a Scenario or a Background",
                               Len(content) + 1, clean, filename>>
      /\ outcome = "FeatureError" => outcome' = "FeatureError"
    ]_vars

\* C1 witness: the parse was aborted at a commented Then line read as the
\* second or a later line of a file without any header.
C1_Witness ==
  /\ outcome = "FeatureError"
  /\ Len(content) >= 2
  /\ content[Len(content)] = "Then y # c"
  /\ NoHeaderYet
  /\ error = <<"Step definition outside of a Scenario or a Background",
               Len(content), "Then y", "f.feature">>

\* C2 as stated: a classified Given/When/Then line is accepted exactly when
\* the previous mode is Background, Given or When AND a Background or a
\* Scenario is open.
C2_AcceptedIffPrevModeAndOpen ==
  [][ content' # content =>
        LET line == content'[Len(content')]
            clean == strip_comments(line)
        IN (~Captured(line) /\ get_step_type(clean) \in {GIVEN, WHEN, THEN_})
           => ((outcome' = "running")
               <=> (/\ prev_mode \in {BACKGROUND, GIVEN, WHEN}
                    /\ (feature.background # NoRef \/ scenario # NoRef)))
    ]_vars

\* C2 amended: a classified Given/When/Then line is accepted (a Step is
\* built and the parse goes on) exactly when a Scenario is open OR the
\* previous mode is Background, Given or When; in every other state it
\* raises the structural FeatureError and the parse is aborted.
C2_AcceptedIffScenarioOrPrevMode ==
  [][ content' # content =>
        LET line == content'[Len(content')]
            clean == strip_comments(line)
        IN (~Captured(line) /\ get_step_type(clean) \in {GIVEN, WHEN, THEN_})
           => IF scenario # NoRef \/ prev_mode \in {BACKGROUND, GIVEN, WHEN}
              THEN /\ outcome' = "running"
                   /\ Len(Steps') = Len(Steps) + 1
                   /\ step' = Len(Steps')
              ELSE /\ outcome' = "FeatureError"
                   /\ error' = <<"Step definition outside of a Scenario or a Background",
                                 Len(content) + 1, clean, filename>>
    ]_vars

\* C2 witness: a Given line was accepted directly after a Scenario header
\* (previous mode Scenario, which is none of Background, Given, When).
C2_Witness ==
  /\ outcome = "running"
  /\ Len(content) >= 2
  /\ content[Len(content) - 1] = "Scenario: s"
  /\ content[Len(content)] = "Given <n>"
  /\ prev_mode = GIVEN
  /\ step # NoRef
  /\ Steps[step].scenario = scenario

\* C3 as stated: once the Feature header has been set, a later classified
\* line with the "Feature: " prefix aborts the parse with the "Multiple
\* features" FeatureError; the feature name is never overwritten; a line
\* with the "Feature: " prefix is never appended to the description.
C3_SecondFeatureHeaderIsFatal ==
  [][ content' # content =>
        LET line == content'[Len(content')]
            clean == strip_comments(line)
        IN /\ (feature.name # None /\ ~Captured(line) /\ startswith(clean, "Feature: "))
              => /\ outcome' = "FeatureError"
                 /\ error' = <<"Multiple features are not allowed in a single feature file",
                               Len(content) + 1, clean, filename>>
           /\ feature.name # None => feature'.name = feature.name
           /\ description' # description => ~startswith(clean, "Feature: ")
    ]_vars

\* C4 as stated: a classified "And " / "But " line read while a Scenario or
\* a Background is open produces exactly one Step, of the type of the most
\* recent step, and no scenario, background or example row.
C4_AndButMakeOneStep ==
  [][ content' # content =>
        LET line == content'[Len(content')]
            clean == strip_comments(line)
        IN (/\ ~Captured(line)
            /\ startswith(clean, "And ") \/ startswith(clean, "But ")
            /\ scenario # NoRef \/ feature.background # NoRef)
           => /\ outcome' = "running"
              /\ Len(Steps') = Len(Steps) + 1
              /\ Steps'[Len(Steps')].type \in {GIVEN, WHEN, THEN_}
              /\ Len(Steps) > 0 => Steps'[Len(Steps')].type = Steps[Len(Steps)].type
              /\ Len(Templates') = Len(Templates)
              /\ Len(Backgrounds') = Len(Backgrounds)
              /\ \A t \in 1..Len(Templates) :
                   Templates'[t].examples = Templates[t].examples
    ]_vars

\* C5 as stated: every Step built from a step line carries the resolved
\* type, the keyword, the trimmed remainder of the line as its single-line
\* text, the indentation of the line and its 1-based line number.
C5_StepCarriesItsLine ==
  \A i \in 1..Len(Steps) :
    origin[i] > 0 =>
      LET line == content[origin[i]]
          clean == strip_comments(line)
      IN /\ Steps[i].type \in {GIVEN, WHEN, THEN_}
         /\ Steps[i].keyword = parse_line(clean)[1]
         /\ Steps[i].indent = IndentOf(line)
         /\ Steps[i]._name = parse_line(clean)[2]
         /\ Steps[i].line_number = origin[i]

\* The text the Step at heap index i, built from a file line, is meant to
\* have: the trimmed remainder of its line plus its continuation block.
TemplateText(i) ==
  Step_name([Steps[i] EXCEPT
               !._name = parse_line(strip_comments(content[origin[i]]))[2]]).value

\* The placeholder names of the Step at heap index i.
PlaceholdersOf(i) == STEP_PARAM_RE_findall(TemplateText(i), 1)

\* The references are to Steps built from file lines, in file order.
InFileOrder(refs) ==
  \A a, b \in 1..Len(refs) :
    /\ origin[refs[a]] > 0
    /\ a < b => origin[refs[a]] < origin[refs[b]]

\* C6 as stated: after a successful parse, ScenarioTemplate.steps and the
\* steps of the Scenario returned by render are the Background's steps in
\* file order followed by the scenario's own steps in file order (m + n
\* steps); with no Background, the scenario's own steps.
C6_StepsAreBackgroundThenOwn ==
  outcome = "returned" =>
    \A e \in 1..Len(feature.scenarios) :
      LET t == feature.scenarios[e][2]
          bg == IF feature.background = NoRef THEN <<>>
                ELSE Backgrounds[feature.background].steps
          own == Templates[t]._steps
      IN /\ ScenarioTemplate_steps(Templates, Backgrounds, feature, t) = bg \o own
         /\ InFileOrder(bg)
         /\ InFileOrder(own)
         /\ \A k \in 1..Len(rendered) :
              (/\ rendered[k].template = t
               /\ \A j \in 1..Len(own) : PlaceholdersOf(own[j]) \subseteq DOMAIN rendered[k].context)
              => /\ rendered[k].exc = None
                 /\ Len(rendered[k].scenario.steps) = Len(bg) + Len(own)
                 /\ SubSeq(rendered[k].scenario.steps, 1, Len(bg)) = bg
                 /\ \A j \in 1..Len(own) :
                      LET new == Steps[rendered[k].scenario.steps[Len(bg) + j]]
                          old == Steps[own[j]]
                      IN /\ new.type = old.type
                         /\ new.keyword = old.keyword
                         /\ new.indent = old.indent

\* C7 as stated: render of a templated scenario with a row that has every
\* placeholder name returns a Scenario whose own steps have the template
\* step's text with every <name> replaced by row[name], and the type,
\* keyword, indent and line number of the template step.
C7_RenderSubstitutesPlaceholders ==
  \A k \in 1..Len(rendered) :
    LET r == rendered[k]
        own == Templates[r.template]._steps
        m == Len(background_steps(Backgrounds, feature))
    IN (/\ Templates[r.template].templated
        /\ \A j \in 1..Len(own) : PlaceholdersOf(own[j]) \subseteq DOMAIN r.context)
       => /\ r.exc = None
          /\ Len(r.scenario.steps) = m + Len(own)
          /\ \A j \in 1..Len(own) :
               LET new == Steps[r.scenario.steps[m + j]]
                   old == Steps[own[j]]
               IN /\ Step_name(new) = STEP_PARAM_RE_sub(TemplateText(own[j]), r.context, 1)
                  /\ new.type = old.type
                  /\ new.keyword = old.keyword
                  /\ new.indent = old.indent
                  /\ new.line_number = origin[own[j]]

\* C8 as stated: render of a templated scenario with a row that lacks the
\* name of a placeholder of one of its own steps fails with a KeyError and
\* returns no Scenario; a parse only ever fails with one of the two
\* structural errors, never because of a placeholder.
C8_MissingPlaceholderIsKeyError ==
  /\ \A k \in 1..Len(rendered) :
       LET r == rendered[k]
           own == Templates[r.template]._steps
       IN (/\ Templates[r.template].templated
           /\ \E j \in 1..Len(own) : ~(PlaceholdersOf(own[j]) \subseteq DOMAIN r.context))
          => /\ r.exc = "KeyError"
             /\ r.scenario = NoScenario
  /\ outcome = "FeatureError" =>
       error[1] \in {"Step definition outside of a Scenario or a Background",
                     "Multiple features are not allowed in a single feature file"}

\* C9: after a successful parse, Feature.validate() raises no
\* ValidationError: every key of feature.scenarios is the name of the
\* scenario stored under it, every step of a scenario's own list references
\* exactly that scenario and no Background, every step of the Background's
\* list references exactly that Background and no scenario.
C9_ParsedTreeIsValid ==
  outcome = "returned" =>
    /\ validated \in {None, "ok"}
    /\ \A e \in 1..Len(feature.scenarios) :
         LET t == feature.scenarios[e][2] IN
         /\ feature.scenarios[e][1] = Templates[t].name
         /\ \A j \in 1..Len(Templates[t]._steps) :
              /\ Steps[Templates[t]._steps[j]].scenario = t
              /\ Steps[Templates[t]._steps[j]].background = NoRef
    /\ feature.background # NoRef =>
         \A j \in 1..Len(Backgrounds[feature.background].steps) :
           /\ Steps[Backgrounds[feature.background].steps[j]].background = feature.background
           /\ Steps[Backgrounds[feature.background].steps[j]].scenario = NoRef

\* C9 witness: validate() has passed on a returned Feature that has a
\* Background with a step and a scenario with a step of its own.
C9_Witness ==
  /\ outcome = "returned"
  /\ validated = "ok"
  /\ feature.background # NoRef
  /\ Len(Backgrounds[feature.background].steps) > 0
  /\ \E e \in 1..Len(feature.scenarios) :
       Len(Templates[feature.scenarios[e][2]]._steps) > 0

\* C10: feature.scenarios has exactly one entry per distinct name among the
\* ScenarioTemplates created (Templates lists them in creation order), the
\* entry is the template created last with that name, and the entries are
\* ordered by the first occurrence of each name.
C10_LastRegistrationWins ==
  LET d == feature.scenarios
      First == {i \in 1..Len(Templates) :
                  \A j \in 1..(i - 1) : Templates[j].name # Templates[i].name}
  IN /\ Len(d) = Cardinality(First)
     /\ \A a, b \in 1..Len(d) : a # b => d[a][1] # d[b][1]
     /\ \A e \in 1..Len(d) :
          LET i == d[e][2] IN
          /\ Templates[i].name = d[e][1]
          /\ \A j \in 1..Len(Templates) : Templates[j].name = d[e][1] => j <= i
          \* e is the rank of the first occurrence of the name
          /\ \E f \in First :
               /\ Templates[f].name = d[e][1]
               /\ e = Cardinality({g \in First : g <= f})
     /\ \A i \in 1..Len(Templates) :
          LET line == content[Templates[i].line_number] IN
          Templates[i].name = parse_line(strip_comments(line))[2]

\* C10 witness: three scenarios were created, the third under the name of
\* the first, and the Feature was returned with two entries.
C10_Witness ==
  /\ outcome = "returned"
  /\ Len(Templates) = 3
  /\ Templates[1].name = Templates[3].name
  /\ Templates[2].name # Templates[1].name
  /\ Len(feature.scenarios) = 2
  /\ feature.scenarios[1] = <<Templates[1].name, 3>>

\* ------------------------------------------------------ C11: blank lines
\* The state of parse_feature before the first line (parser.py:98-114).
parse_feature_locals ==
  [outcome |-> "running", error |-> None,
   feature |-> [scenarios |-> <<>>, filename |-> abs_filename,
                rel_filename |-> rel_filename, line_number |-> 1,
                name |-> None, tags |-> {}, background |-> NoRef,
                description |-> ""],
   scenario |-> NoRef, mode |-> None, prev_mode |-> None,
   description |-> <<>>, step |-> NoRef, multiline_step |-> FALSE,
   prev_line |-> None, Steps |-> <<>>, Templates |-> <<>>,
   Backgrounds |-> <<>>]

\* The loop of parse_feature over lines[i..], from the state s, until the
\* lines are exhausted or an exception leaves the loop.
RECURSIVE parse_feature_loop(_, _, _)
parse_feature_loop(s, lines, i) ==
  IF i > Len(lines) \/ s.outcome # "running" THEN s
  ELSE parse_feature_loop(loop_body(s, i, lines[i]), lines, i + 1)

\* The lines without the one at position p.
DeleteLine(lines, p) ==
  SubSeq(lines, 1, p - 1) \o SubSeq(lines, p + 1, Len(lines))

\* The parsed document without its line numbers: the Feature, its scenarios
\* in order with their tags, Examples and step lists, the Background and
\* every Step; and how the parse ended.
DocumentOf(s) ==
  [outcome |-> s.outcome,
   error |-> IF s.error = None THEN None ELSE <<s.error[1]>>,
   feature |-> [s.feature EXCEPT !.line_number = NoLine],
   Templates |-> [i \in 1..Len(s.Templates) |->
                    [s.Templates[i] EXCEPT !.line_number = NoLine,
                                           !.examples.line_number = NoLine]],
   Backgrounds |-> [i \in 1..Len(s.Backgrounds) |->
                      [s.Backgrounds[i] EXCEPT !.line_number = NoLine]],
   Steps |-> s.Steps]

\* The line at position p is a blank line that a parse of the lines reaches
\* outside the Feature description block (the line before it was not taken
\* in Feature mode) and outside a multi-line continuation block; t is the
\* state of the parse before that line.
BlankOutsideBlocksIn(t, lines, p) ==
  /\ lines[p] = ""
  /\ t.outcome = "running"
  /\ t.prev_mode # FEATURE
  /\ ~(t.step # NoRef /\ t.multiline_step)

BlankOutsideBlocks(lines, p) ==
  BlankOutsideBlocksIn(parse_feature_loop(parse_feature_locals,
                                          SubSeq(lines, 1, p - 1), 1),
                       lines, p)

\* C11: deleting (equivalently, inserting) a blank line at a position
\* outside the Feature description block and outside a multi-line
\* continuation block, also directly between a step line and a following
\* more-indented line, does not change the parsed document apart from line
\* numbers.
C11_BlankLinesAreInsignificant ==
  outcome # "returned" =>
    \A p \in 1..Len(content) :
      BlankOutsideBlocks(content, p) =>
        DocumentOf(parse_feature_loop(parse_feature_locals,
                                      DeleteLine(content, p), 1))
          = DocumentOf(Locals)

\* ------------------------------------------- C12: concurrent render calls
\* The Step references in a sequence of references.
RefsOf(refs) == {refs[j] : j \in 1..Len(refs)}

\* C12: two render calls on the same templated ScenarioTemplate return
\* Scenarios that share no Step instance with each other or with the
\* template's own step list, and a failure marker seen on a step of one
\* run's Scenario was set by that run.
C12_RunsShareNoStep ==
  \A j \in 1..Len(rendered) : \A k \in 1..Len(rendered) :
    (/\ j # k
     /\ rendered[j].template = rendered[k].template
     /\ Templates[rendered[k].template].templated
     /\ rendered[j].exc = None
     /\ rendered[k].exc = None)
    => /\ StepsOfRun(j) \cap StepsOfRun(k) = {}
       /\ StepsOfRun(k) \cap RefsOf(Templates[rendered[k].template]._steps) = {}
       /\ \A ref \in StepsOfRun(k) :
            Steps[ref].failed => ref \in rendered[k].marked

\* ------------------------------------------------ C13: Examples row length
\* The index of the first row whose length differs from the header's, or
\* one more than the number of rows.
FirstMismatch(ex) ==
  LET bad == {i \in 1..Len(ex.examples) :
                Len(ex.examples[i]) # Len(ex.example_params)}
  IN IF bad = {} THEN Len(ex.examples) + 1
     ELSE CHOOSE i \in bad : \A j \in bad : i <= j

\* m maps every column name of the header to the cell of the row in that
\* column.
MapsHeaderToCells(m, header, row) ==
  /\ DOMAIN m = {header[c] : c \in 1..Len(header)}
  /\ \A c \in 1..Len(header) :
       (\A d \in (c + 1)..Len(header) : header[d] # header[c])
         => m[header[c]] = row[c]

\* What the generator g has yielded and how it stands, against the table ex.
GenConforms(g, ex) ==
  /\ Len(g.yielded) = g.pos
  /\ g.pos < FirstMismatch(ex)
  /\ \A i \in 1..g.pos :
       MapsHeaderToCells(g.yielded[i], ex.example_params, ex.examples[i])
  /\ g.status = "AssertionError"
       <=> (g.pos = FirstMismatch(ex) - 1 /\ FirstMismatch(ex) <= Len(ex.examples)
            /\ g.status # "suspended")
  /\ g.status = "done" => g.pos = Len(ex.examples)
  /\ Len(ex.examples) = 0 => g.yielded = <<>> /\ g.status # "AssertionError"

\* C13: parse_feature never fails because a data row has another number of
\* cells than the header (the header keeps its non-empty cells, a data row
\* all its cells); as_contexts yields one header-to-cell mapping per row, in
\* row order, for the rows before the first mismatching row and fails with
\* AssertionError on reaching that row; with no rows it yields nothing, and
\* a new call starts again from the first row.
C13_RowLengthCheckedLazily ==
  [][ /\ (/\ content' # content
          /\ scenario # NoRef
          /\ ~Captured(content'[Len(content')])
          /\ strip_comments(content'[Len(content')]) # ""
          /\ get_step_type(strip_comments(content'[Len(content')])) = None)
         => /\ mode = EXAMPLE_LINE
              => /\ outcome' = "running"
                 /\ Templates'[scenario].examples =
                      [Templates[scenario].examples EXCEPT
                         !.examples = Append(@, split_line(strip(content'[Len(content')])))]
            /\ mode = EXAMPLES_HEADERS
              => /\ outcome' = "running"
                 /\ Templates'[scenario].examples.examples =
                      Templates[scenario].examples.examples
                 /\ Templates'[scenario].examples.example_params =
                      SelectSeq(split_line(parse_line(
                                  strip_comments(content'[Len(content')]))[2]),
                                LAMBDA l : l # "")
      /\ gen'.status # "none"
           => GenConforms(gen', Templates'[gen'.template].examples)
      /\ (gen.status = "suspended" /\ gen' # gen /\ gen'.status # "suspended")
           => \/ gen'.status = "done" /\ gen'.pos = Len(Templates[gen.template].examples.examples)
              \/ gen'.status = "AssertionError"
      /\ (gen'.status = "suspended" /\ gen'.yielded # <<>>)
           => gen'.yielded[1] =
                dict_zip(Templates[gen'.template].examples.example_params,
                         Templates[gen'.template].examples.examples[1])
    ]_vars

\* as_contexts has yielded the mapping of the first row of a table with the
\* column n and failed on the second of three rows, which has another
\* length.
C13_Witness ==
  /\ gen.status = "AssertionError"
  /\ gen.pos = 1
  /\ Templates[gen.template].examples.example_params = <<"n">>
  /\ Len(Templates[gen.template].examples.examples) = 3

\* ---------------------------------------------- C14: triple-quoted block
\* The index of the last line of the block that is not blank, or 0.
LastNonBlank(ls) ==
  IF \A i \in 1..Len(ls) : ls[i] = "" THEN 0
  ELSE CHOOSE i \in 1..Len(ls) : ls[i] # "" /\ \A j \in (i + 1)..Len(ls) : ls[j] = ""

\* The continuation lines start with a line that holds only the delimiter
\* and end with another one, blank lines after it aside.
IsQuotedBlock(ls) ==
  /\ Len(ls) >= 2
  /\ strip(ls[1]) = triple_quote
  /\ LastNonBlank(ls) >= 2
  /\ strip(ls[LastNonBlank(ls)]) = triple_quote

\* The lines between the two delimiter lines, without the leading whitespace
\* common to the lines of the block.
InnerLines(ls) ==
  LET block  == SubSeq(ls, 1, LastNonBlank(ls))
      margin == dedent_margin(dedent_blank(block), 1, None)
  IN [k \in 1..(Len(block) - 2) |->
        IF startswith(block[k + 1], margin)
        THEN SubSeq(block[k + 1], Len(margin) + 1, Len(block[k + 1]))
        ELSE block[k + 1]]

\* C14: for a step line followed by a more-indented block that starts and
\* ends with a line holding only the triple-quote delimiter, Step.name is
\* the step's single-line text, a newline and the inner lines without their
\* common leading whitespace, joined by newlines, both delimiter lines
\* removed; whatever blank lines follow the closing delimiter.
C14_QuotedBlockText ==
  \A i \in 1..Len(Steps) :
    (origin[i] # 0 /\ IsQuotedBlock(Steps[i].lines))
    => Step_name(Steps[i]) =
         Ok(strip(parse_line(strip_comments(content[origin[i]]))[2]
                  \o "\n" \o join("\n", InnerLines(Steps[i].lines))))

\* ------------------------------------------- C15: render leaves the tree
\* C15: a render call changes neither the template, the Feature, the
\* Background nor any Step that existed before it (text, continuation lines
\* and owner references); of a scenario that is not templated it returns
\* the Background's steps followed by the template's own Step objects, no
\* substitution applied; every Scenario returned starts with the
\* Background's Step objects.
C15_RenderLeavesTreeUnchanged ==
  [][ rendered' # rendered /\ Len(rendered') = Len(rendered) + 1 =>
        /\ Templates' = Templates
        /\ Backgrounds' = Backgrounds
        /\ feature' = feature
        /\ SubSeq(Steps', 1, Len(Steps)) = Steps
        /\ LET r  == rendered'[Len(rendered')]
               bg == IF feature.background = NoRef THEN <<>>
                     ELSE Backgrounds[feature.background].steps
           IN /\ ~Templates[r.template].templated
                   => /\ r.exc = None
                      /\ r.scenario.steps = bg \o Templates[r.template]._steps
                      /\ Steps' = Steps
              /\ r.exc = None
                   => /\ Len(r.scenario.steps) >= Len(bg)
                      /\ SubSeq(r.scenario.steps, 1, Len(bg)) = bg
    ]_vars

\* A scenario that is not templated, whose own step has a placeholder the
\* context defines, has been rendered in a Feature with a Background step.
C15_Witness ==
  \E k \in 1..Len(rendered) :
    LET t == Templates[rendered[k].template] IN
    /\ ~t.templated
    /\ "n" \in DOMAIN rendered[k].context
    /\ feature.background # NoRef
    /\ Len(Backgrounds[feature.background].steps) = 1
    /\ Len(t._steps) = 1
    /\ "n" \in PlaceholdersOf(t._steps[1])
    /\ rendered[k].exc = None
    /\ rendered[k].scenario.steps =
         Backgrounds[feature.background].steps \o t._steps

\* ------------------------------------------------- C16: Feature.validate
\* C16: Feature.validate raises ValidationError for every tree with a map
\* key that differs from the scenario's name, a step of a scenario's own
\* list that references a Background or anything but that scenario, or a
\* step of the Background's list that references a scenario or anything but
\* that Background; and raises nothing for a tree with none of these.
C16_ValidateRejectsExactlyDefects ==
  validated # None =>
    /\ Defective => validated = "ValidationError"
    /\ ~Defective => validated = "ok"

\* ------------------------------------------------ C17: continuation lines
\* C17: while a step is active, a line indented more than the step, or a
\* blank line once the multi-line block has started, is appended verbatim
\* to the step's continuation buffer and leaves mode, previous mode, the
\* previous significant line, the scenarios, the Background and the
\* Examples tables unchanged; the first line with text that is not
\* indented more than the step ends the block and is classified as it is
\* with no step active.
C17_ContinuationLinesAreCapturedVerbatim ==
  [][ content' # content =>
        /\ (/\ step # NoRef
            /\ \/ Steps[step].indent < IndentOf(content'[Len(content')])
               \/ lstrip(content'[Len(content')]) = "" /\ multiline_step)
           => /\ Steps' = [Steps EXCEPT
                             ![step].lines = Append(@, content'[Len(content')])]
              /\ multiline_step'
              /\ UNCHANGED <<outcome, step, mode, prev_mode, prev_line, feature,
                             scenario, Templates, Backgrounds>>
        /\ (/\ step # NoRef
            /\ lstrip(content'[Len(content')]) # ""
            /\ IndentOf(content'[Len(content')]) <= Steps[step].indent)
           => /\ Steps'[step].lines = Steps[step].lines
              /\ step' # step
              /\ Locals' = loop_body([Locals EXCEPT !.step = NoRef,
                                                    !.multiline_step = FALSE],
                                     Len(content'), content'[Len(content')])
    ]_vars

\* A step has taken an indented line and a blank line after it into its
\* continuation buffer.
C17_Witness ==
  /\ step # NoRef
  /\ multiline_step
  /\ Steps[step].lines = <<"  q", "">>
  /\ prev_line = "Given <n>"

\* ---------------------------------------------------------- C18: tag lines
\* The line at position p of the lines is significant: the parse neither
\* takes it as a continuation line nor skips it as blank.
SignificantIn(t, line) ==
  /\ ~(/\ t.step # NoRef
       /\ \/ t.Steps[t.step].indent < IndentOf(line)
          \/ lstrip(line) = "" /\ t.multiline_step)
  /\ ~(strip_comments(line) = "" /\ t.prev_mode # FEATURE)

Significant(lines, p) ==
  SignificantIn(parse_feature_loop(parse_feature_locals,
                                   SubSeq(lines, 1, p - 1), 1),
                lines[p])

\* The tags a header after the lines gets: those of the most recent
\* significant line if it is a tag line, none otherwise.
TagsForHeaderAfter(lines) ==
  LET sig == {p \in 1..Len(lines) : Significant(lines, p)} IN
  IF sig = {} THEN {}
  ELSE LET last == CHOOSE p \in sig : \A q \in sig : q <= p IN
       IF get_step_type(strip_comments(lines[last])) = TAG
       THEN get_tags(strip_comments(lines[last]))
       ELSE {}

\* C18: a tag line creates no step, scenario, background or example row;
\* the tag set of a Feature, Scenario or Scenario Outline header is that of
\* the most recent significant line if that line is a tag line and empty
\* otherwise (a Feature line that is not taken as the header of the Feature
\* changes no tags).
C18_TagsGoToTheNextHeaderOnly ==
  [][ (/\ content' # content
       /\ SignificantIn(Locals, content'[Len(content')])
       /\ outcome' = "running")
      => /\ get_step_type(strip_comments(content'[Len(content')])) = TAG
            => /\ Steps' = Steps
               /\ Templates' = Templates
               /\ Backgrounds' = Backgrounds
               /\ feature' = feature
         /\ get_step_type(strip_comments(content'[Len(content')]))
              \in {SCENARIO, SCENARIO_OUTLINE}
            => /\ Len(Templates') = Len(Templates) + 1
               /\ Templates'[Len(Templates')].tags = TagsForHeaderAfter(content)
               /\ \A i \in 1..Len(Templates) : Templates'[i].tags = Templates[i].tags
               /\ feature'.tags = feature.tags
         /\ (/\ get_step_type(strip_comments(content'[Len(content')])) = FEATURE
             /\ feature'.line_number = Len(content'))
            => feature'.tags = TagsForHeaderAfter(content)
         /\ (/\ get_step_type(strip_comments(content'[Len(content')])) = FEATURE
             /\ feature'.line_number # Len(content'))
            => feature'.tags = feature.tags
    ]_vars

\* A tagged Scenario header followed directly by a Scenario Outline header:
\* the first has the tag, the second has none.
C18_Witness ==
  /\ Len(content) >= 3
  /\ content[1] = "@t"
  /\ Len(Templates) = 2
  /\ Templates[1].tags = {"t"}
  /\ Templates[2].tags = {}
  /\ Templates[2].templated

\* ------------------------------------------- C19: headers and sticky mode
\* C19: a ScenarioTemplate is created and registered only when the line
\* itself starts with "Scenario: " or "Scenario Outline: ", and
\* feature.background is assigned only when the line itself starts with
\* "Background:"; a line with no typed prefix that follows such a header
\* under the sticky mode creates no scenario and replaces no Background.
C19_OnlyHeaderLinesOpenScenarios ==
  [][ content' # content =>
        /\ (Len(Templates') > Len(Templates)
            \/ feature'.scenarios # feature.scenarios)
           => get_step_type(strip_comments(content'[Len(content')]))
                \in {SCENARIO, SCENARIO_OUTLINE}
        /\ (Len(Backgrounds') > Len(Backgrounds)
            \/ feature'.background # feature.background)
           => get_step_type(strip_comments(content'[Len(content')])) = BACKGROUND
    ]_vars

\* --------------------------------------------- C20: only FeatureError
\* C20: for every input text parse_feature returns a Feature or raises
\* FeatureError; the Examples actions run only while a scenario is open, so
\* no line sequence makes the parser dereference a missing scenario and
\* fail with another error.
C20_ParseReturnsOrRaisesFeatureError ==
  /\ outcome \in {"running", "returned", "FeatureError"}
  /\ (outcome = "running" /\ mode \in {EXAMPLES_HEADERS, EXAMPLE_LINE})
       => scenario # NoRef


====
